---- MODULE Spec2Model ----
(***************************************************************************)
(* Model of frontend/src/App.jsx: the live capture loop, the recording     *)
(* buffer, the recordings collection and the replay loop of the            *)
(* spectrogram component.                                                  *)
(*                                                                         *)
(* React state is modelled by its committed value (what the last render,   *)
(* the effects and the event handlers closed over see).  A click handler   *)
(* and the render it causes form one step; a state update made from a      *)
(* promise continuation, an animation-frame callback or an effect body is  *)
(* kept pending until the Render step commits it.                          *)
(*                                                                         *)
(* Time is counted in display refreshes: a callback handed to              *)
(* requestAnimationFrame becomes due at the next refresh, and the next     *)
(* refresh comes when every due callback has run.                          *)
(*                                                                         *)
(* Arrays are objects.  A frames array is owned by a recording or by none;  *)
(* a reference to one is the position of the owning recording in            *)
(* recordings, or 0 for the array no recording owns, whose contents are in  *)
(* loose.  A write through a reference to an owned array is a write to the  *)
(* recording's frames.                                                      *)
(***************************************************************************)
EXTENDS Integers, Sequences, FiniteSets, TLC

\* ---------------------------------------------------------------- bounds
MaxTime == 2
MaxDate == 1
MaxFrames == 3
MaxRecordings == 2
MaxInst == 2
MaxEvents == 4
MaxCaptureEvents == 8
MaxLookupLen == 3
MaxLookupTime == 3
MaxBins == 5
MaxBinIndex == 3
\* The spectrogram surface of the model, a small one: SurfaceWidth columns of
\* SurfaceHeight rows (1024 by 320 on the canvas of lines 871-872), and the
\* fftSize SurfaceFft (2048 at line 247).
SurfaceWidth == 2
SurfaceHeight == 3
SurfaceFft == 2

Null == 0 - 1
InstIds == 1..MaxInst

VARIABLES
  now,                \* performance.now(), in display refreshes
  date,               \* Date.now(), line 580
  isListening,        \* useState, line 9
  isRecording,        \* useState, line 10
  isReplaying,        \* useState, line 11
  useLogScale,        \* useState, line 16
  recordings,         \* useState, line 12: sequence, most recent first
  pendListening,      \* setIsListening called outside a handler, not yet rendered
  pendReplayOff,      \* setIsReplaying(false) called outside a handler, not yet rendered
  recordedFramesRef,  \* useRef, line 21: reference to a frames array
  loose,              \* contents of the array no recording owns
  recordingStartRef,  \* useRef, line 22
  isRecordingRef,     \* useRef, line 24
  live,               \* the instances of the live effect that called start()
  rp,                 \* the replay effect instance and replayRequestIdRef
  histTicks,          \* times of the live ticks fired since recording was started
  histPhase,          \* the last recording session: "idle" none yet or saved,
                      \*   "armed" started and no tick (live or replay) since,
                      \*   "ticked", "barren" stopped while armed
  events,             \* how many user events are still to come
  surface,            \* the spectrogram canvas: for each column painted since it
                      \*   was last filled with black, oldest first, the scale
                      \*   mode the column was painted with
  qFrames,            \* frame lookup on its own: the frames,
  qElapsed,           \*   the elapsed time,
  qResult,            \*   and the index drawReplay's loop selects (0: not yet run)
  aMags,              \* calculateFrequencyAnalysis on its own: freqDataArray,
  aRate,              \*   sampleRate,
  aFft,               \*   fftSize,
  aOut,               \*   what the call returned,
  aShown,             \*   topResonatingFreq and harmonyInfo (useState, lines 17-18)
  bBin,               \* binToY on its own: binIndex,
  bRate,              \*   sampleRate,
  bFft,               \*   fftSize,
  bHeight,            \*   height,
  bLog,               \*   logarithmic,
  bY,                 \*   what the call returned (Unset: no call yet),
  bPainted,           \*   the paint loop filled a pixel for the bin
  bHover,             \* yToFreq on its own: the row under the pointer and the result
  wCanvas,            \* scroll and paint on its own: the pixels, by column and row,
  wFreq,              \*   the freqDataArray of the last tick,
  wRate,              \*   sampleRate,
  wLog                \*   useLogScale

vars == <<now, date, isListening, isRecording, isReplaying, useLogScale, recordings,
          pendListening, pendReplayOff, recordedFramesRef, loose, recordingStartRef,
          isRecordingRef, live, rp, histTicks, histPhase, events, surface, qFrames, qElapsed,
          qResult, aMags, aRate, aFft, aOut, aShown, bBin, bRate, bFft, bHeight,
          bLog, bY, bPainted, bHover, wCanvas, wFreq, wRate, wLog>>

avars == <<aMags, aRate, aFft, aOut, aShown>>
bvars == <<bBin, bRate, bFft, bHeight, bLog, bY, bPainted, bHover>>
wvars == <<wCanvas, wFreq, wRate, wLog>>

\* The variables of the functions that are checked on their own.
qvars == <<qFrames, qElapsed, qResult, avars, bvars, wvars>>

\* The user has a number of events to spend (clicks, file selections).
UserEvent == events > 0 /\ events' = events - 1

\* ------------------------------------------------------------ data model
\* A frame pushed by draw (lines 323-327); ok = FALSE is a stored frame whose
\* freq / timeDomain arrays are missing (only an imported file can hold one).
Frame(t, ok) == [t |-> t, ok |-> ok]

\* log is the useLogScale of the render whose effect created the instance:
\* the value draw and drawReplay pass to binToY (lines 301 and 488).
NoReplay == [raf |-> FALSE, due |-> FALSE, frames |-> 0, startTime |-> 0, log |-> FALSE]
FreeInst == [st |-> "free", cleaned |-> FALSE, due |-> FALSE, log |-> FALSE]

\* The surface after a tick scrolled it and painted a column, lines 285-314.
Painted(columns, logarithmic) ==
  IF Len(columns) < SurfaceWidth THEN Append(columns, logarithmic)
  ELSE Append(Tail(columns), logarithmic)

\* The contents of the array a reference points to.
Deref(ref, recs, ls) == IF ref = 0 THEN ls ELSE recs[ref].frames

\* A reference after n recordings were put in front of the collection.
Shifted(ref, n) == IF ref = 0 THEN 0 ELSE ref + n

\* The value a render started now would see: pending updates applied.
CurListening == IF pendListening = "none" THEN isListening ELSE pendListening = "true"
CurReplaying == IF pendReplayOff THEN FALSE ELSE isReplaying

\* ------------------------------------------------- drawReplay frame lookup
\* Lines 452-458: the first frame, in array order, whose t >= elapsed; the
\* last frame when the loop finds none.  Returns the (1-based) index.
\* The lookup with > in place of >= : it passes over the frame at t = elapsed.
RECURSIVE FindFrameFromStrict(_, _, _)
FindFrameFromStrict(frames, elapsed, i) ==
  IF i > Len(frames) THEN Len(frames)
  ELSE IF frames[i].t > elapsed THEN i
  ELSE FindFrameFromStrict(frames, elapsed, i + 1)

RECURSIVE FindFrameFrom(_, _, _)
FindFrameFrom(frames, elapsed, i) ==
  IF i > Len(frames) THEN Len(frames)
  ELSE IF frames[i].t >= elapsed THEN i
  ELSE FindFrameFrom(frames, elapsed, i + 1)

FindFrame(frames, elapsed) == FindFrameFrom(frames, elapsed, 1)

\* Line 546: the replay loop goes on (isReplaying there is the effect's
\* closure value, TRUE in every instance that got past line 422).
ReplayContinues(frames, elapsed) == elapsed <= frames[Len(frames)].t

\* ------------------------------------------------------ effects (render)
\* Cleanup of the live effect, lines 412-417, run for the instance whose
\* effect is being replaced: it cancels the callback held in ITS OWN
\* animationFrameId.  An instance whose start() is still awaiting
\* getUserMedia has none yet; it is only marked cleaned up, and start() goes
\* on.  Instances cleaned up before are not touched.
LiveCleanup(lv) ==
  [i \in InstIds |->
     IF lv[i].cleaned THEN lv[i]
     ELSE IF lv[i].st = "looping" THEN FreeInst
     ELSE IF lv[i].st = "awaiting" THEN [lv[i] EXCEPT !.cleaned = TRUE]
     ELSE lv[i]]

FreeSlot(lv) ==
  CHOOSE i \in InstIds :
    lv[i].st = "free" /\ \A j \in InstIds : lv[j].st = "free" => i <= j

\* Body of the live effect, lines 226-410, for the values of this render:
\* start() is called when neither replaying nor listening.
LiveEffect(lv, L, R, S) ==
  IF ~R /\ ~L
  THEN [lv EXCEPT ![FreeSlot(lv)] =
          [st |-> "awaiting", cleaned |-> FALSE, due |-> FALSE, log |-> S]]
  ELSE lv

\* Body of the replay effect, lines 422-553, for the values of this render;
\* fr is recordedFramesRef.current and content that array's frames.
ReplayEffect(R, S, fr, content) ==
  IF R /\ content # << >>
  THEN [raf |-> TRUE, due |-> FALSE, frames |-> fr, startTime |-> now, log |-> S]
  ELSE NoReplay

\* A render that commits isListening = L, isReplaying = R, useLogScale = S,
\* then runs the clean-ups and the bodies of the effects whose dependency
\* lists (lines 418 and 560) changed.  The clean-up of the replay effect
\* (lines 555-559) cancels the callback in replayRequestIdRef.
Commit(L, R, S, fr, content) ==
  LET liveDeps == <<L, R, S>> # <<isListening, isReplaying, useLogScale>>
      replayDeps == <<R, S>> # <<isReplaying, useLogScale>>
      cleaned == IF liveDeps THEN LiveCleanup(live) ELSE live
  IN /\ (liveDeps /\ ~R /\ ~L) => \E i \in InstIds : cleaned[i].st = "free"
     /\ isListening' = L
     /\ isReplaying' = R
     /\ useLogScale' = S
     /\ live' = IF liveDeps THEN LiveEffect(cleaned, L, R, S) ELSE live
     /\ rp' = IF replayDeps THEN ReplayEffect(R, S, fr, content) ELSE rp
     \* lines 444-447: the replay effect fills the canvas with black
     /\ surface' = IF replayDeps /\ R /\ content # << >> THEN << >> ELSE surface
     /\ pendListening' = "none"
     \* line 425: setIsReplaying(false) from the effect body
     /\ pendReplayOff' = (replayDeps /\ R /\ content = << >>)

\* The render React schedules for updates made outside an event handler.
Render ==
  /\ pendListening # "none" \/ pendReplayOff
  /\ Commit(CurListening, CurReplaying, useLogScale, recordedFramesRef,
            Deref(recordedFramesRef, recordings, loose))
  /\ UNCHANGED <<now, date, isRecording, recordings, recordedFramesRef, loose,
                 recordingStartRef, isRecordingRef, histTicks, histPhase, events, qvars>>

\* ------------------------------------------------------------ live loop
\* draw, "save frame if recording", lines 316-328.
DrawBody ==
  IF isRecordingRef
  THEN LET fresh == recordingStartRef = Null
           start == IF fresh THEN now ELSE recordingStartRef
           target == IF fresh THEN 0 ELSE recordedFramesRef            \* line 321
           base == IF fresh THEN << >>
                   ELSE Deref(recordedFramesRef, recordings, loose)
           pushed == Append(base, Frame(now - start, TRUE))            \* line 323
       IN /\ Len(base) < MaxFrames
          /\ recordingStartRef' = start
          /\ recordedFramesRef' = target
          /\ IF target = 0
             THEN loose' = pushed /\ UNCHANGED recordings
             ELSE /\ recordings' = [recordings EXCEPT ![target].frames = pushed]
                  /\ UNCHANGED loose
          /\ histTicks' = Append(histTicks, now)
          /\ histPhase' = "ticked"
  ELSE UNCHANGED <<recordingStartRef, recordedFramesRef, loose, recordings,
                   histTicks, histPhase>>

\* A due draw callback of instance i runs, lines 274-383, and hands itself
\* to requestAnimationFrame again (line 382).
Draw(i) ==
  /\ live[i].st = "looping"
  /\ live[i].due
  /\ DrawBody
  /\ surface' = Painted(surface, live[i].log)                        \* lines 285-314
  /\ live' = [live EXCEPT ![i].due = FALSE]
  /\ UNCHANGED <<now, date, isListening, isRecording, isReplaying, useLogScale,
                 pendListening, pendReplayOff, isRecordingRef, rp, events, qvars>>

\* start() resumes after getUserMedia resolved, lines 245-400:
\* setIsListening(true), then the first draw().  It never looks at whether
\* its effect instance was cleaned up meanwhile.
StartGranted(i) ==
  /\ live[i].st = "awaiting"
  /\ pendListening' = IF isListening THEN "none" ELSE "true"
  /\ DrawBody
  /\ surface' = Painted(<< >>, live[i].log)               \* lines 386-389, 285-314
  /\ live' = [live EXCEPT ![i].st = "looping"]
  /\ UNCHANGED <<now, date, isListening, isRecording, isReplaying, useLogScale,
                 pendReplayOff, isRecordingRef, rp, events, qvars>>

\* getUserMedia rejected, lines 401-405.
StartDenied(i) ==
  /\ live[i].st = "awaiting"
  /\ pendListening' = IF isListening THEN "false" ELSE "none"
  /\ live' = [live EXCEPT ![i] = FreeInst]
  /\ UNCHANGED <<now, date, isListening, isRecording, isReplaying, useLogScale,
                 recordings, pendReplayOff, recordedFramesRef, loose,
                 recordingStartRef, isRecordingRef, rp, histTicks, histPhase, events,
                 surface, qvars>>

\* ---------------------------------------------------------- replay loop
\* drawReplay, lines 449-551.  Uint8Array.from(freq) (line 462) throws on a
\* frame without its arrays: the callback ends there, before line 546, so
\* nothing is rescheduled and isReplaying is left as it is.
DrawReplay ==
  /\ rp.raf
  /\ rp.due
  /\ LET frames == Deref(rp.frames, recordings, loose)
         elapsed == now - rp.startTime
         i == FindFrame(frames, elapsed)
     IN IF ~frames[i].ok
        THEN /\ rp' = NoReplay
             /\ UNCHANGED <<pendReplayOff, surface>>
        ELSE IF ReplayContinues(frames, elapsed)
        THEN /\ rp' = [rp EXCEPT !.due = FALSE]
             /\ surface' = Painted(surface, rp.log)                  \* lines 472-501
             /\ UNCHANGED pendReplayOff
        ELSE /\ rp' = NoReplay
             /\ surface' = Painted(surface, rp.log)
             /\ pendReplayOff' = TRUE
  /\ histPhase' = IF histPhase = "armed" THEN "ticked" ELSE histPhase
  /\ UNCHANGED <<now, date, isListening, isRecording, isReplaying, useLogScale,
                 recordings, pendListening, recordedFramesRef, loose,
                 recordingStartRef, isRecordingRef, live, histTicks, events, qvars>>

\* The next display refresh: every scheduled callback becomes due.
NextFrame ==
  /\ now < MaxTime
  /\ \A i \in InstIds : ~live[i].due
  /\ ~rp.due
  /\ now' = now + 1
  /\ live' = [i \in InstIds |-> [live[i] EXCEPT !.due = (live[i].st = "looping")]]
  /\ rp' = [rp EXCEPT !.due = rp.raf]
  /\ UNCHANGED <<date, isListening, isRecording, isReplaying, useLogScale, recordings,
                 pendListening, pendReplayOff, recordedFramesRef, loose,
                 recordingStartRef, isRecordingRef, histTicks, histPhase, events, surface, qvars>>

\* Date.now() moves on.
AdvanceDate ==
  /\ date < MaxDate
  /\ date' = date + 1
  /\ UNCHANGED <<now, isListening, isRecording, isReplaying, useLogScale, recordings,
                 pendListening, pendReplayOff, recordedFramesRef, loose,
                 recordingStartRef, isRecordingRef, live, rp, histTicks, histPhase,
                 events, surface, qvars>>

\* --------------------------------------------------------- event handlers
\* A start that leaves the buffer as it was.
StartedBufferKept(prev) == prev

\* A save that puts the new recording last.
SaveRecordingLast(prev, recording) == prev \o <<recording>>

\* Line 568: recordedFramesRef.current = [] ; prev is what the ref held.
StartedBuffer(prev) == << >>

\* Lines 582-598: the updater of setRecordings.
SaveRecording(prev, recording) == <<recording>> \o prev

\* handleToggleRecording, lines 562-600.
HandleToggleRecording ==
  /\ UserEvent
  /\ ~isReplaying                                                     \* line 563
  /\ IF ~isRecordingRef
     THEN \* starting a new recording, lines 566-572
          /\ recordingStartRef' = Null
          /\ recordedFramesRef' = 0
          /\ loose' = StartedBuffer(Deref(recordedFramesRef, recordings, loose))
          /\ isRecording' = TRUE
          /\ isRecordingRef' = TRUE
          /\ UNCHANGED recordings
     ELSE \* stopping and saving, lines 575-599
          LET frames == Deref(recordedFramesRef, recordings, loose)
              index == Len(recordings) + 1
              recording == [id |-> <<date, index>>,
                            durationMs |-> frames[Len(frames)].t,
                            frames |-> frames]
          IN /\ isRecording' = FALSE
             /\ isRecordingRef' = FALSE
             /\ IF frames # << >>                                     \* line 578
                THEN /\ Len(recordings) < MaxRecordings
                     /\ recordings' = SaveRecording(recordings, recording)
                     /\ recordedFramesRef' = Shifted(recordedFramesRef, 1)
                ELSE UNCHANGED <<recordings, recordedFramesRef>>
             /\ UNCHANGED <<loose, recordingStartRef>>
  /\ histTicks' = << >>
  /\ histPhase' = IF ~isRecordingRef THEN "armed"
                  ELSE IF histPhase = "armed" THEN "barren" ELSE "idle"
  /\ Commit(CurListening, CurReplaying, useLogScale, recordedFramesRef',
            Deref(recordedFramesRef', recordings', loose'))
  /\ UNCHANGED <<now, date, qvars>>

\* recordings.find, line 645: the position of the first recording with that id.
FindRecording(recordingId) ==
  CHOOSE i \in DOMAIN recordings :
    /\ recordings[i].id = recordingId
    /\ \A j \in DOMAIN recordings : recordings[j].id = recordingId => i <= j

\* handleReplay, lines 644-664; its button is disabled while replaying (832).
\* isRecordingRef, recordingStartRef are not written.
HandleReplay(recordingId) ==
  /\ UserEvent
  /\ ~isReplaying
  /\ \E i \in DOMAIN recordings : recordings[i].id = recordingId      \* line 646
  /\ recordedFramesRef' = FindRecording(recordingId)                  \* line 647
  /\ loose' = << >>
  /\ isRecording' = FALSE                                             \* line 661
  /\ Commit(FALSE, TRUE, useLogScale, recordedFramesRef',             \* 662-663
            Deref(recordedFramesRef', recordings, loose'))
  /\ UNCHANGED <<now, date, recordings, recordingStartRef, isRecordingRef,
                 histTicks, histPhase, qvars>>

\* prev.filter, line 667.
FilterOut(recs, recordingId) == SelectSeq(recs, LAMBDA r : r.id # recordingId)

\* handleDeleteRecording, lines 666-675; its button is disabled while
\* replaying (840).  The array of a deleted recording lives on while the ref
\* points to it.
HandleDeleteRecording(recordingId) ==
  /\ UserEvent
  /\ ~isReplaying
  /\ \E i \in DOMAIN recordings : recordings[i].id = recordingId
  /\ recordings' = FilterOut(recordings, recordingId)                 \* line 667
  /\ LET ref == recordedFramesRef
         gone == ref # 0 /\ recordings[ref].id = recordingId
         current == ref # 0 /\ recordings[ref].id = recordingId       \* lines 670-671
         stop == isReplaying /\ Deref(ref, recordings, loose) # << >> /\ current
     IN /\ recordedFramesRef' =
             IF ref = 0 \/ gone THEN 0
             ELSE Cardinality({j \in 1..ref : recordings[j].id # recordingId})
        /\ loose' = IF gone THEN recordings[ref].frames ELSE loose
        /\ Commit(CurListening, IF stop THEN FALSE ELSE CurReplaying, useLogScale,
                  recordedFramesRef', Deref(recordedFramesRef', recordings', loose'))
  /\ UNCHANGED <<now, date, isRecording, recordingStartRef, isRecordingRef,
                 histTicks, histPhase, qvars>>

\* The scale checkbox, line 860: setUseLogScale(e.target.checked).
SetUseLogScale ==
  /\ UserEvent
  /\ Commit(CurListening, CurReplaying, ~useLogScale, recordedFramesRef,
            Deref(recordedFramesRef, recordings, loose))
  /\ UNCHANGED <<now, date, isRecording, recordings, recordedFramesRef, loose,
                 recordingStartRef, isRecordingRef, histTicks, histPhase, qvars>>

\* ------------------------------------------------------------------ import
\* Elements of an imported JSON array.  isObj = FALSE is a null element;
\* isArr tells whether the frames field is an array; durationMs = Null is a
\* missing (or non-numeric) field.
Entry(isObj, isArr, frames, durationMs) ==
  [isObj |-> isObj, isArr |-> isArr, frames |-> frames, durationMs |-> durationMs]

WellFormedEntry == Entry(TRUE, TRUE, <<Frame(0, TRUE), Frame(1, TRUE)>>, 1)
NonArrayFramesEntry == Entry(TRUE, FALSE, << >>, Null)
BrokenFrameEntry == Entry(TRUE, TRUE, <<Frame(0, TRUE), Frame(1, FALSE)>>, 1)
NullEntry == Entry(FALSE, FALSE, << >>, Null)
\* A file may declare any durationMs: line 719 takes a positive number as it is.
DeclaredDurationEntry == Entry(TRUE, TRUE, <<Frame(0, TRUE)>>, 1)

\* The files the model imports.
ImportFiles ==
  { <<WellFormedEntry>>,
    <<WellFormedEntry, NonArrayFramesEntry>>,
    <<WellFormedEntry, NullEntry>>,
    <<BrokenFrameEntry>>,
    <<DeclaredDurationEntry>> }

\* Lines 717-720.
ImportedDuration(rec) ==
  IF rec.durationMs # Null /\ rec.durationMs > 0 THEN rec.durationMs
  ELSE IF rec.isArr /\ rec.frames # << >> THEN rec.frames[Len(rec.frames)].t
  ELSE 0

\* The callback of parsed.map, lines 715-744, for element idx (from 1).
ImportedRecording(rec, idx) ==
  [id |-> <<date, idx - 1, "random">>,
   durationMs |-> ImportedDuration(rec),
   frames |-> IF rec.isArr THEN rec.frames ELSE << >>]               \* line 742

\* reader.onload of handleImportFile, lines 707-752.  rec.createdAt of a null
\* element throws inside parsed.map; the catch (line 746) drops the batch.
HandleImportFile(parsed) ==
  /\ UserEvent
  /\ IF \E k \in DOMAIN parsed : ~parsed[k].isObj
     THEN UNCHANGED <<recordings, recordedFramesRef, rp>>
     ELSE LET imported == [k \in DOMAIN parsed |-> ImportedRecording(parsed[k], k)]
          IN /\ Len(recordings) + Len(parsed) <= MaxRecordings
             /\ recordings' = imported \o recordings                  \* line 745
             /\ recordedFramesRef' = Shifted(recordedFramesRef, Len(imported))
             /\ rp' = [rp EXCEPT !.frames = Shifted(rp.frames, Len(imported))]
  /\ UNCHANGED <<now, date, isListening, isRecording, isReplaying, useLogScale,
                 pendListening, pendReplayOff, loose, recordingStartRef,
                 isRecordingRef, live, histTicks, histPhase, surface, qvars>>

\* ----------------------------------------------- calculateFrequencyAnalysis
\* Lines 80-139.  A frequency is kept as a whole number: its value in Hz times
\* fftSize, which is bin * sampleRate for the frequency of a bin.  Bins count
\* from 0: bin i of freqDataArray is mags[i + 1].
PeakThreshold == 50
HarmonicThreshold == 30
LowFreqLimitHz == 2000
MinFundamentalHz == 10

Min(a, b) == IF a < b THEN a ELSE b

\* The peak search with >= in place of > : the last of equal maxima wins.
RECURSIVE PeakScanLast(_, _, _, _)
PeakScanLast(mags, i, maxValue, peakBin) ==
  IF i >= Len(mags) THEN peakBin
  ELSE IF mags[i + 1] >= maxValue THEN PeakScanLast(mags, i + 1, mags[i + 1], i)
  ELSE PeakScanLast(mags, i + 1, maxValue, peakBin)

\* Lines 84-91: the loop of the peak search from bin i on.
RECURSIVE PeakScan(_, _, _, _)
PeakScan(mags, i, maxValue, peakBin) ==
  IF i >= Len(mags) THEN peakBin
  ELSE IF mags[i + 1] > maxValue THEN PeakScan(mags, i + 1, mags[i + 1], i)
  ELSE PeakScan(mags, i + 1, maxValue, peakBin)

\* Line 96.
LowFreqLimit(sampleRate, fftSize) == (LowFreqLimitHz * fftSize) \div sampleRate

\* A peak test that does not look at the bin above.
IsPeakLowerOnly(mags, i) == i = 0 \/ mags[i] < mags[i + 1]

\* Lines 104-105: isPeak for bin i.
IsPeak(mags, i) ==
  /\ i = 0 \/ mags[i] < mags[i + 1]
  /\ i = Len(mags) - 1 \/ mags[i + 2] < mags[i + 1]

\* Lines 100-111: the loop of the fundamental search from bin i on.
RECURSIVE FundamentalScan(_, _, _, _, _)
FundamentalScan(mags, lowFreqLimit, i, fundamentalValue, fundamentalBin) ==
  IF i >= Min(lowFreqLimit, Len(mags)) THEN fundamentalBin
  ELSE LET value == mags[i + 1]
       IN IF value > fundamentalValue /\ value > PeakThreshold /\ IsPeak(mags, i)
          THEN FundamentalScan(mags, lowFreqLimit, i + 1, value, i)
          ELSE FundamentalScan(mags, lowFreqLimit, i + 1, fundamentalValue,
                               fundamentalBin)

\* A harmonics loop that reads the bin one above the harmonic's.
RECURSIVE HarmonicsFromShifted(_, _, _, _, _)
HarmonicsFromShifted(mags, sampleRate, fundamentalFreq, n, harmonics) ==
  IF n > 4 THEN harmonics
  ELSE LET harmonicFreq == fundamentalFreq * n
           harmonicBin == (harmonicFreq \div sampleRate) + 1
       IN IF harmonicBin < Len(mags) /\ mags[harmonicBin + 1] > HarmonicThreshold
          THEN HarmonicsFromShifted(mags, sampleRate, fundamentalFreq, n + 1,
                 Append(harmonics, [order |-> n, frequency |-> harmonicFreq,
                                    amplitude |-> mags[harmonicBin + 1]]))
          ELSE HarmonicsFromShifted(mags, sampleRate, fundamentalFreq, n + 1, harmonics)

\* Lines 117-131: the loop over the orders from n on.  harmonicFreq being
\* Hz times fftSize, Math.floor((harmonicFreq * fftSize) / sampleRate) is
\* harmonicFreq \div sampleRate here.
RECURSIVE HarmonicsFrom(_, _, _, _, _)
HarmonicsFrom(mags, sampleRate, fundamentalFreq, n, harmonics) ==
  IF n > 4 THEN harmonics
  ELSE LET harmonicFreq == fundamentalFreq * n
           harmonicBin == harmonicFreq \div sampleRate
       IN IF harmonicBin < Len(mags) /\ mags[harmonicBin + 1] > HarmonicThreshold
          THEN HarmonicsFrom(mags, sampleRate, fundamentalFreq, n + 1,
                 Append(harmonics, [order |-> n, frequency |-> harmonicFreq,
                                    amplitude |-> mags[harmonicBin + 1]]))
          ELSE HarmonicsFrom(mags, sampleRate, fundamentalFreq, n + 1, harmonics)

\* What calculateFrequencyAnalysis returns: null (line 81) or the object of
\* lines 134-138; "pending" stands for no call yet.
Analysis(returned, topResonating, fundamental, harmonics) ==
  [returned |-> returned, topResonating |-> topResonating,
   fundamental |-> fundamental, harmonics |-> harmonics]

CalculateFrequencyAnalysis(mags, sampleRate, fftSize) ==
  IF mags = << >> THEN Analysis("null", Null, Null, << >>)
  ELSE LET peakBin == PeakScan(mags, 0, 0, 0)
           fundamentalBin ==
             FundamentalScan(mags, LowFreqLimit(sampleRate, fftSize), 1, 0, 0)
           fundamentalFreq == fundamentalBin * sampleRate
           valid == fundamentalFreq > MinFundamentalHz * fftSize      \* line 117
       IN Analysis("summary", peakBin * sampleRate,
                   IF valid THEN fundamentalFreq ELSE Null,
                   IF valid THEN HarmonicsFrom(mags, sampleRate, fundamentalFreq, 2, << >>)
                   ELSE << >>)

\* topResonatingFreq and harmonyInfo; both start as null (lines 17-18).
Shown(topResonatingFreq, fundamental, harmonics) ==
  [topResonatingFreq |-> topResonatingFreq, fundamental |-> fundamental,
   harmonics |-> harmonics]

NothingShown == Shown(Null, Null, << >>)

\* No call of calculateFrequencyAnalysis.
AnalyzerIdle ==
  /\ aMags = << >>
  /\ aRate = 1
  /\ aFft = 2
  /\ aOut = Analysis("pending", Null, Null, << >>)
  /\ aShown = NothingShown

\* ------------------------------------------------------------------ binToY
\* Lines 32-54, in exact arithmetic.  binFreq is kept as binIndex * sampleRate,
\* its value in Hz times fftSize.
MinFreq == 5
MaxFreq == 20000
Unset == 0 - 2

RECURSIVE Pow(_, _)
Pow(b, e) == IF e = 0 THEN 1 ELSE b * Pow(b, e - 1)

\* Lines 43-47: Math.floor(frac * (height - 1)) for
\* frac = 1 - (log10(binFreq) - log10(5)) / (log10(20000) - log10(5)).  Row r
\* is at most frac * (height - 1) exactly when
\* (binFreq / 5)^(height - 1) <= (20000 / 5)^(height - 1 - r); the floor is the
\* largest such r, searched downwards from r.
RECURSIVE LogRowFrom(_, _, _, _)
LogRowFrom(freqTimesFft, fftSize, height, r) ==
  IF r <= 0 THEN 0
  ELSE IF Pow(freqTimesFft, height - 1)
            <= Pow(MaxFreq \div MinFreq, height - 1 - r) * Pow(MinFreq * fftSize, height - 1)
       THEN r
       ELSE LogRowFrom(freqTimesFft, fftSize, height, r - 1)

\* The linear row with frac = (binFreq - 5) / (20000 - 5): 5 Hz at the top.
LinearRowUpward(freqTimesFft, fftSize, height) ==
  ((freqTimesFft - MinFreq * fftSize) * (height - 1)) \div ((MaxFreq - MinFreq) * fftSize)

\* Lines 50-51: Math.floor(frac * (height - 1)) for
\* frac = 1 - (binFreq - 5) / (20000 - 5).
LinearRow(freqTimesFft, fftSize, height) ==
  ((MaxFreq * fftSize - freqTimesFft) * (height - 1)) \div ((MaxFreq - MinFreq) * fftSize)

\* A band test that lets 0 Hz through.
OutOfBandUpperOnly(freqTimesFft, fftSize) == freqTimesFft > MaxFreq * fftSize

\* Line 38.
OutOfBand(freqTimesFft, fftSize) ==
  freqTimesFft < MinFreq * fftSize \/ freqTimesFft > MaxFreq * fftSize

BinToY(binIndex, bufferLength, height, logarithmic, sampleRate, fftSize) ==
  LET binFreq == binIndex * sampleRate
  IN IF OutOfBand(binFreq, fftSize) THEN 0 - 1
     ELSE IF logarithmic THEN LogRowFrom(binFreq, fftSize, height, height - 1)
     ELSE LinearRow(binFreq, fftSize, height)

\* ------------------------------------------------------------------ yToFreq
\* Lines 65 and 69: frac = 1 - (y + 0.5) / (height - 1), as the fraction
\* YFracNum / YFracDen.
\* The fraction without the "1 -": rows counted from the bottom.
YFracNumUpward(y, height) == 2 * y + 1

YFracNum(y, height) == 2 * (height - 1) - (2 * y + 1)
YFracDen(height) == 2 * (height - 1)

\* yToFreq, lines 58-72.  The linear result (line 70) is num / den Hz; the
\* logarithmic result Math.pow(10, logMin + frac * (logMax - logMin))
\* (lines 66-67) is 5 * (20000 / 5)^(num / den) Hz.
YToFreq(y, height, logarithmic) ==
  IF logarithmic
  THEN [num |-> YFracNum(y, height), den |-> YFracDen(height)]
  ELSE [num |-> MinFreq * YFracDen(height) + YFracNum(y, height) * (MaxFreq - MinFreq),
        den |-> YFracDen(height)]

\* The pointer is not on the surface.
NoHover == [y |-> Unset, freq |-> [num |-> 0, den |-> 0]]

\* No call of binToY or yToFreq.
MapperIdle ==
  /\ bBin = 0
  /\ bRate = 1
  /\ bFft = 2
  /\ bHeight = 1
  /\ bLog = FALSE
  /\ bY = Unset
  /\ bPainted = FALSE
  /\ bHover = NoHover

\* ------------------------------------------------------- scroll and paint
Columns == 0..(SurfaceWidth - 1)
Rows == 0..(SurfaceHeight - 1)

\* Math.floor(Math.sqrt(n)), searched upwards from k in steps of 16, then of 1.
RECURSIVE ISqrtFrom(_, _, _)
ISqrtFrom(n, k, step) ==
  IF (k + step) * (k + step) <= n THEN ISqrtFrom(n, k + step, step)
  ELSE IF step = 1 THEN k
  ELSE ISqrtFrom(n, k, 1)

\* Lines 307-312: the fill style for the byte value of a bin,
\* rgb(floor(255 * v^3), floor(50 * v), floor(255 * sqrt(v))) for v = value / 255.
Colour(value) ==
  <<(value * value * value) \div (255 * 255), (50 * value) \div 255, ISqrtFrom(255 * value, 0, 16)>>

\* fillStyle = 'black', lines 387 and 445.
Black == <<0, 0, 0>>

\* Lines 386-389 and 444-447: the surface filled with black.
Cleared == [x \in Columns |-> [y \in Rows |-> Black]]

\* Lines 285-286: getImageData(1, 0, width - 1, height) put back at (0, 0):
\* columns 1 .. width - 1 move one to the left; the last column is not
\* written.
Scrolled(canvas) ==
  [x \in Columns |-> IF x < SurfaceWidth - 1 THEN canvas[x + 1] ELSE canvas[x]]

\* Lines 299-314 (486-501): the paint loop from bin i on, on column col.
RECURSIVE PaintFrom(_, _, _, _, _)
PaintFrom(freq, i, col, logarithmic, sampleRate) ==
  IF i >= Len(freq) THEN col
  ELSE LET y == BinToY(i, Len(freq), SurfaceHeight, logarithmic, sampleRate, SurfaceFft)
       IN IF y < 0
          THEN PaintFrom(freq, i + 1, col, logarithmic, sampleRate)
          ELSE PaintFrom(freq, i + 1, [col EXCEPT ![y] = Colour(freq[i + 1])],
                         logarithmic, sampleRate)

\* The spectrogram part of one tick, lines 282-314 of draw and 469-501 of
\* drawReplay.
Ticked(canvas, freq, logarithmic, sampleRate) ==
  LET scrolled == Scrolled(canvas)
  IN [scrolled EXCEPT ![SurfaceWidth - 1] =
        PaintFrom(freq, 0, scrolled[SurfaceWidth - 1], logarithmic, sampleRate)]

\* No tick on the surface checked on its own.
WaterfallIdle ==
  /\ wCanvas = Cleared
  /\ wFreq = << >>
  /\ wRate = 1
  /\ wLog = FALSE

\* ------------------------------------------------------------ specification
\* The state after the first render and its effects: the live effect ran
\* with isListening = FALSE and called start() (line 409); no recordings.
Mounted ==
  /\ now = 0
  /\ date = 0
  /\ isListening = FALSE
  /\ isRecording = FALSE
  /\ isReplaying = FALSE
  /\ useLogScale = TRUE
  /\ recordings = << >>
  /\ pendListening = "none"
  /\ pendReplayOff = FALSE
  /\ recordedFramesRef = 0
  /\ loose = << >>
  /\ recordingStartRef = Null
  /\ isRecordingRef = FALSE
  /\ live = [i \in InstIds |->
               IF i = 1
               THEN [st |-> "awaiting", cleaned |-> FALSE, due |-> FALSE, log |-> TRUE]
               ELSE FreeInst]
  /\ rp = NoReplay
  /\ histTicks = << >>
  /\ histPhase = "idle"
  /\ surface = << >>

ProgramInit ==
  /\ Mounted
  /\ events = MaxEvents

\* No call of the functions checked on their own.
LookupIdle ==
  /\ qFrames = << >>
  /\ qElapsed = 0
  /\ qResult = 0

Init ==
  /\ ProgramInit
  /\ LookupIdle
  /\ AnalyzerIdle
  /\ MapperIdle
  /\ WaterfallIdle

Next ==
  \/ NextFrame
  \/ AdvanceDate
  \/ Render
  \/ \E i \in InstIds : StartGranted(i)
  \/ \E i \in InstIds : StartDenied(i)
  \/ \E i \in InstIds : Draw(i)
  \/ DrawReplay
  \/ HandleToggleRecording
  \/ \E i \in DOMAIN recordings : HandleReplay(recordings[i].id)
  \/ \E i \in DOMAIN recordings : HandleDeleteRecording(recordings[i].id)
  \/ SetUseLogScale
  \/ \E parsed \in ImportFiles : HandleImportFile(parsed)

Spec == Init /\ [][Next]_vars

\* The animation-frame callbacks and the scheduled render do run; what the
\* user and the permission prompt do is not forced.
FairSpec ==
  /\ Spec
  /\ WF_vars(NextFrame)
  /\ WF_vars(Render)
  /\ WF_vars(\E i \in InstIds : Draw(i))
  /\ WF_vars(DrawReplay)

\* ------------------------------------------- recording and deleting only
\* The behaviours in which the microphone is granted and the user starts
\* recordings, stops them, deletes them and switches the scale (the switch
\* is what can leave a live loop running for more than one capture), with a
\* larger number of user events than Spec has.
CaptureInit ==
  /\ Mounted
  /\ events = MaxCaptureEvents
  /\ LookupIdle
  /\ AnalyzerIdle
  /\ MapperIdle
  /\ WaterfallIdle

CaptureNext ==
  \/ NextFrame
  \/ AdvanceDate
  \/ Render
  \/ \E i \in InstIds : StartGranted(i)
  \/ \E i \in InstIds : Draw(i)
  \/ HandleToggleRecording
  \/ \E i \in DOMAIN recordings : HandleDeleteRecording(recordings[i].id)
  \/ SetUseLogScale

CaptureSpec == CaptureInit /\ [][CaptureNext]_vars

\* ------------------------------------------- the frame lookup on its own
\* Frames arrays of up to MaxLookupLen frames, timestamps in any order (an
\* imported file is not checked for order).
LookupFrames ==
  UNION { [1..n -> {Frame(t, TRUE) : t \in 0..MaxLookupTime}] : n \in 1..MaxLookupLen }

LookupInit ==
  /\ ProgramInit
  /\ qFrames \in LookupFrames
  /\ qElapsed = 0
  /\ qResult = 0
  /\ AnalyzerIdle
  /\ MapperIdle
  /\ WaterfallIdle

\* The loop of drawReplay, lines 452-458, run for the present elapsed time.
RunLookup ==
  /\ qResult = 0
  /\ qResult' = FindFrame(qFrames, qElapsed)
  /\ UNCHANGED <<now, date, isListening, isRecording, isReplaying, useLogScale,
                 recordings, pendListening, pendReplayOff, recordedFramesRef, loose,
                 recordingStartRef, isRecordingRef, live, rp, histTicks, histPhase,
                 events, surface, qFrames, qElapsed, avars, bvars, wvars>>

\* Time passes until the next replay tick, line 450.
ElapseLookup ==
  /\ qResult # 0
  /\ qElapsed <= MaxLookupTime
  /\ qElapsed' = qElapsed + 1
  /\ qResult' = 0
  /\ UNCHANGED <<now, date, isListening, isRecording, isReplaying, useLogScale,
                 recordings, pendListening, pendReplayOff, recordedFramesRef, loose,
                 recordingStartRef, isRecordingRef, live, rp, histTicks, histPhase,
                 events, surface, qFrames, avars, bvars, wvars>>

LookupNext == RunLookup \/ ElapseLookup

LookupSpec == LookupInit /\ [][LookupNext]_vars

\* ---------------------------------------------- the analyzer on its own
\* Byte magnitudes around the two thresholds, and a loud one.
Magnitudes == {0, 30, 31, 50, 51, 200}

\* Arrays of up to MaxBins bins; fftSize 8 asks for 4 bins.
MagArrays == UNION { [1..n -> Magnitudes] : n \in 0..MaxBins }

\* Bins 8 Hz, 500 Hz and 750 Hz wide.
SampleRates == {64, 4000, 6000}
FftSizes == {8}

AnalyzerInit ==
  /\ ProgramInit
  /\ LookupIdle
  /\ aMags \in MagArrays
  /\ aRate \in SampleRates
  /\ aFft \in FftSizes
  /\ aOut = Analysis("pending", Null, Null, << >>)
  /\ aShown = NothingShown
  /\ MapperIdle
  /\ WaterfallIdle

\* The analysis step of draw and drawReplay, lines 289-296 and 476-483.
Analyze ==
  /\ aOut.returned = "pending"
  /\ LET analysis == CalculateFrequencyAnalysis(aMags, aRate, aFft)
     IN /\ aOut' = analysis
        /\ aShown' = IF analysis.returned # "null"
                     THEN Shown(analysis.topResonating, analysis.fundamental,
                                analysis.harmonics)
                     ELSE aShown
  /\ UNCHANGED <<now, date, isListening, isRecording, isReplaying, useLogScale,
                 recordings, pendListening, pendReplayOff, recordedFramesRef, loose,
                 recordingStartRef, isRecordingRef, live, rp, histTicks, histPhase,
                 events, surface, qFrames, qElapsed, qResult, aMags, aRate, aFft, bvars, wvars>>

AnalyzerNext == Analyze

AnalyzerSpec == AnalyzerInit /\ [][AnalyzerNext]_vars

\* ------------------------------------------------- binToY on its own
\* Bins 4 Hz, 5 Hz, 2000 Hz, 10000 Hz and 20000 Hz wide (fftSize 2).
MapperRates == {8, 10, 4000, 20000, 40000}
MapperFftSizes == {2}
Heights == {1, 2, 3}

MapperInit ==
  /\ ProgramInit
  /\ LookupIdle
  /\ AnalyzerIdle
  /\ bBin \in 0..MaxBinIndex
  /\ bRate \in MapperRates
  /\ bFft \in MapperFftSizes
  /\ bHeight \in Heights
  /\ bLog \in BOOLEAN
  /\ bY = Unset
  /\ bPainted = FALSE
  /\ bHover = NoHover
  /\ WaterfallIdle

\* One round of the column paint loop, lines 299-314 (and 486-501): the
\* pixel is filled unless y < 0.
PaintBin ==
  /\ bY = Unset
  /\ bY' = BinToY(bBin, bBin + 1, bHeight, bLog, bRate, bFft)
  /\ bPainted' = ~(bY' < 0)
  /\ UNCHANGED <<now, date, isListening, isRecording, isReplaying, useLogScale,
                 recordings, pendListening, pendReplayOff, recordedFramesRef, loose,
                 recordingStartRef, isRecordingRef, live, rp, histTicks, histPhase,
                 events, surface, qFrames, qElapsed, qResult, avars, bBin, bRate, bFft,
                 bHeight, bLog, bHover, wvars>>

\* handleSpectrogramHover, lines 602-618, with the pointer on row y of the
\* surface: nothing is computed on a surface of height 1 (line 610).
HoverRow ==
  /\ bY # Unset
  /\ bHover = NoHover
  /\ bHeight - 1 > 0
  /\ \E y \in 0..(bHeight - 1) :
       bHover' = [y |-> y, freq |-> YToFreq(y, bHeight, bLog)]
  /\ UNCHANGED <<now, date, isListening, isRecording, isReplaying, useLogScale,
                 recordings, pendListening, pendReplayOff, recordedFramesRef, loose,
                 recordingStartRef, isRecordingRef, live, rp, histTicks, histPhase,
                 events, surface, qFrames, qElapsed, qResult, avars, bBin, bRate, bFft,
                 bHeight, bLog, bY, bPainted, wvars>>

MapperNext == PaintBin \/ HoverRow

MapperSpec == MapperInit /\ [][MapperNext]_vars

\* ------------------------------------------- scroll and paint on its own
\* A replay of an imported recording: the surface was cleared by the replay
\* effect (lines 444-447), the scale mode and the sample rate are those of
\* the effect instance, and each tick paints the freq array of the frame it
\* selected, of whatever length the file gave it (line 465).
PixelValues == {0, 64, 255}
MaxFreqLen == 3
FreqArrays == UNION { [1..n -> PixelValues] : n \in 0..MaxFreqLen }
WaterfallRates == {10, 20000}

WaterfallInit ==
  /\ ProgramInit
  /\ LookupIdle
  /\ AnalyzerIdle
  /\ MapperIdle
  /\ wCanvas = Cleared
  /\ wFreq = << >>
  /\ wRate \in WaterfallRates
  /\ wLog \in BOOLEAN

PaintColumn(freq) ==
  /\ wCanvas' = Ticked(wCanvas, freq, wLog, wRate)
  /\ wFreq' = freq
  /\ UNCHANGED <<now, date, isListening, isRecording, isReplaying, useLogScale,
                 recordings, pendListening, pendReplayOff, recordedFramesRef, loose,
                 recordingStartRef, isRecordingRef, live, rp, histTicks, histPhase,
                 events, surface, qFrames, qElapsed, qResult, avars, bvars, wRate, wLog>>

WaterfallNext == \E freq \in FreqArrays : PaintColumn(freq)

WaterfallSpec == WaterfallInit /\ [][WaterfallNext]_vars

\* Sanity of the model itself.
TypeOK ==
  /\ now \in 0..MaxTime
  /\ date \in 0..MaxDate
  /\ Len(recordings) <= MaxRecordings
  /\ Len(loose) <= MaxFrames
  /\ \A k \in DOMAIN recordings : Len(recordings[k].frames) <= MaxFrames
  /\ recordedFramesRef \in 0..Len(recordings)
  /\ recordedFramesRef # 0 => loose = << >>
  /\ rp.raf => rp.frames \in 0..Len(recordings)
  /\ rp.raf => isReplaying
  /\ (rp.raf /\ rp.frames = 0) => (recordedFramesRef = 0 /\ recordingStartRef # Null)
  /\ Cardinality({i \in InstIds : live[i].st # "free" /\ ~live[i].cleaned}) <= 1

\* ------------------------------------------------------------- properties
\* A live instance holds a requested animation frame while it is looping.
LiveScheduled == \E i \in InstIds : live[i].st = "looping"

\* C1: live capture and replay are mutually exclusive: in no reachable state
\* are a live tick callback (draw) and a replay tick callback (drawReplay)
\* both scheduled.
C1_MutuallyExclusive == ~(LiveScheduled /\ rp.raf)

\* C2: no orphaned callback survives a mode switch: an effect instance that
\* was cleaned up never has a tick loop running, also when its start() was
\* still awaiting the input device at the clean-up.
C2_NoOrphan == \A i \in InstIds : live[i].cleaned => live[i].st # "looping"

\* C3: the live loop never stops on its own: once acquisition was granted
\* (isListening committed), no replay is active and no render is pending, a
\* live tick callback is scheduled.  Where this fails nothing is scheduled and
\* nothing is pending, so no live tick ever fires again unless the user acts.
C3_LiveLoopRuns ==
  (isListening /\ ~isReplaying /\ pendListening = "none" /\ ~pendReplayOff)
    => LiveScheduled

\* C4: a Recording is immutable after creation: in every step, every recording
\* whose id is still in the collection afterwards is there with the same
\* frames and the same durationMs.
C4_Immutable ==
  [][\A k \in DOMAIN recordings :
       (\E j \in DOMAIN recordings' : recordings'[j].id = recordings[k].id)
         => \E j \in DOMAIN recordings' : recordings'[j] = recordings[k]]_vars

C6_TickContinuesOrStops ==
  [][DrawReplay =>
       LET frames == Deref(rp.frames, recordings, loose)
           elapsed == now - rp.startTime
           lastT == frames[Len(frames)].t
       IN /\ rp'.raf <=> elapsed <= lastT
          /\ elapsed > lastT => pendReplayOff']_vars

\* C7: replay is strictly linear: while a replay goes on, its start time (the
\* origin of the playback clock) stays the same in every step.
C7_FixedOrigin == [][(rp.raf /\ rp'.raf) => rp'.startTime = rp.startTime]_vars

\* The frames N live ticks at the given times must leave in the recording.
Normalised(ticks) == [k \in DOMAIN ticks |-> Frame(ticks[k] - ticks[1], TRUE)]

\* C8: every tick that fires while recording appends exactly one frame: when
\* recording is stopped after N >= 1 live ticks, a Recording is created with
\* exactly N frames, each timestamp the tick's time minus the first tick's
\* time, and durationMs the last frame's timestamp.
C8_FramePerTick ==
  [][HandleToggleRecording =>
       ((isRecordingRef /\ histTicks # << >>) =>
          /\ Len(recordings') = Len(recordings) + 1
          /\ recordings'[1].frames = Normalised(histTicks)
          /\ recordings'[1].durationMs = histTicks[Len(histTicks)] - histTicks[1])]_vars

\* C9: starting a recording and stopping it before any tick (live or replay)
\* has fired creates no Recording: neither the start nor such a stop changes
\* the recordings collection.
C9_NoTickNoRecording ==
  [][HandleToggleRecording =>
       ((~isRecordingRef \/ histPhase = "armed") => recordings' = recordings)]_vars

\* A recording was saved, then another one was started and stopped before any
\* tick; the collection holds the one recording.
C9_Witness ==
  /\ histPhase = "barren"
  /\ ~isRecordingRef
  /\ Len(recordings) = 1
  /\ Len(recordings[1].id) = 2

\* C10: stopping a recording whose buffer holds at least one frame adds
\* exactly one Recording, at the head of the collection, made of the buffer's
\* frames; the recordings that were there follow it, unchanged and in the
\* same order.
C10_PrependsOne ==
  [][HandleToggleRecording =>
       LET frames == Deref(recordedFramesRef, recordings, loose)
       IN (isRecordingRef /\ frames # << >>) =>
            /\ Len(recordings') = Len(recordings) + 1
            /\ Tail(recordings') = recordings
            /\ recordings'[1].frames = frames
            /\ recordings'[1].durationMs = frames[Len(frames)].t]_vars

\* A recording was stopped and saved as the second of the collection: it is
\* at the head, the older one behind it.
C10_Witness ==
  /\ Len(recordings) = 2
  /\ Len(recordings[1].id) = 2
  /\ recordings[1].id[2] = 2
  /\ ~isRecordingRef

\* The Delete buttons are disabled while isReplaying (line 840): a step that
\* removes a recording is taken with no replay active, before and after.
DeleteOnlyWhenIdle ==
  [][(\E k \in DOMAIN recordings :
        \A j \in DOMAIN recordings' : recordings'[j].id # recordings[k].id)
       => (~isReplaying /\ ~rp.raf /\ ~rp'.raf)]_vars

\* The entries of an imported file that are recordings: objects whose frames
\* field is an array.
ArrayEntries(parsed) == {k \in DOMAIN parsed : parsed[k].isObj /\ parsed[k].isArr}

\* C12: import skips the entries whose frames field is not an array: a file
\* whose elements are all objects adds to the collection exactly as many
\* recordings as it has entries with an array in frames.
C12_SkipsNonArrayFrames ==
  [][\A parsed \in ImportFiles :
       (HandleImportFile(parsed) /\ \A k \in DOMAIN parsed : parsed[k].isObj)
         => Len(recordings') = Len(recordings) + Cardinality(ArrayEntries(parsed))]_vars

\* C13: a malformed element of an imported file (a null) is skipped and the
\* valid entries of the same file are still imported: every import adds at
\* least the file's entries whose frames field is an array.
C13_ValidEntriesImported ==
  [][\A parsed \in ImportFiles :
       HandleImportFile(parsed)
         => Len(recordings') >= Len(recordings) + Cardinality(ArrayEntries(parsed))]_vars

\* C14: a per-frame error never stops the tick loop: in no reachable state is
\* replay marked active (isReplaying, no switch-off pending) without a replay
\* tick callback scheduled.
C14_ReplayKeepsTicking == CurReplaying => rp.raf

\* ------------------------------------------- properties of the analyzer
\* The analyzed array, by bin.
Bins == 0..(Len(aMags) - 1)
BinMag(i) == aMags[i + 1]

\* The call returned a feature summary.
Summarised == aOut.returned = "summary"

\* Bin i holds more than each neighbour it has, and more than 50.
QualifyingPeak(i) ==
  /\ i - 1 \in Bins => BinMag(i - 1) < BinMag(i)
  /\ i + 1 \in Bins => BinMag(i + 1) < BinMag(i)
  /\ BinMag(i) > 50

\* C15: dominant frequency: for a non-empty array the call returns a summary
\* whose topResonating is p * sampleRate / fftSize, p the lowest bin holding
\* the maximum; for an all-zero array that is 0 Hz, with no fundamental and
\* no harmonics.
C15_DominantFrequency ==
  (aOut.returned # "pending" /\ aMags # << >>) =>
    /\ Summarised
    /\ \E p \in Bins :
         /\ \A i \in Bins : BinMag(i) <= BinMag(p)
         /\ \A i \in Bins : BinMag(i) = BinMag(p) => p <= i
         /\ aOut.topResonating = p * aRate
    /\ (\A i \in Bins : BinMag(i) = 0) =>
         /\ aOut.topResonating = 0
         /\ aOut.fundamental = Null
         /\ aOut.harmonics = << >>

\* The maximum 200 is held by bins 1 and 3: bin 1 (500 Hz) is reported.
C15_Witness ==
  /\ aMags = <<0, 200, 31, 200>>
  /\ aRate = 4000
  /\ Summarised
  /\ aOut.topResonating = 4000

\* C16: the fundamental search covers every bin below 2000 Hz: a bin i >= 1
\* with i * sampleRate / fftSize < 2000 that is the only strict local peak
\* above 50 of the array, and lies above 10 Hz, is reported as the fundamental.
C16_CoversBelow2000 ==
  Summarised =>
    \A i \in Bins \ {0} :
      ( /\ i * aRate < 2000 * aFft
        /\ i * aRate > 10 * aFft
        /\ QualifyingPeak(i)
        /\ \A j \in Bins \ {0, i} : ~QualifyingPeak(j) )
      => aOut.fundamental = i * aRate

\* The bins the search looks at: i >= 1 below floor(2000 * fftSize / sampleRate).
Examined == {i \in Bins : i >= 1 /\ (i + 1) * aRate <= 2000 * aFft}

C18_Harmonics ==
  Summarised =>
    IF aOut.fundamental = Null THEN aOut.harmonics = << >>
    ELSE LET h == aOut.harmonics
             binOf(n) == (n * aOut.fundamental) \div aRate
             orders == {n \in 2..4 : binOf(n) \in Bins /\ BinMag(binOf(n)) > 30}
         IN /\ {h[k].order : k \in DOMAIN h} = orders
            /\ \A k \in DOMAIN h : \A l \in DOMAIN h : k < l => h[k].order < h[l].order
            /\ \A k \in DOMAIN h :
                 /\ h[k].frequency = h[k].order * aOut.fundamental
                 /\ h[k].amplitude = BinMag(binOf(h[k].order))

\* A peak of 200 at bin 1 and more than 30 at bins 2, 3, 4: orders 2, 3, 4.
C18_Witness ==
  /\ aMags = <<0, 200, 31, 51, 31>>
  /\ aRate = 4000
  /\ Summarised
  /\ Len(aOut.harmonics) = 3
  /\ aOut.harmonics[3].amplitude = 31

\* C19: malformed analyzer input is rejected: for an array whose length is
\* not fftSize / 2 no feature summary is returned and the displayed features
\* are not updated.
C19_RejectsMalformed ==
  (aOut.returned # "pending" /\ Len(aMags) # aFft \div 2) =>
    /\ ~Summarised
    /\ aShown = NothingShown

\* ----------------------------------------------- properties of binToY
\* C20: binToY returns -1 exactly for the bins whose frequency
\* i * sampleRate / fftSize is below 5 Hz or above 20000 Hz, bin 0 among
\* them, and the paint loop fills no pixel for such a bin; every other bin
\* gets a row of the surface, which is filled.
C20_OutOfBandMarker ==
  bY # Unset =>
    LET outOfBand == bBin * bRate < 5 * bFft \/ bBin * bRate > 20000 * bFft
    IN /\ bY = 0 - 1 <=> outOfBand
       /\ bBin = 0 => bY = 0 - 1
       /\ outOfBand => ~bPainted
       /\ ~outOfBand => (bY \in 0..(bHeight - 1) /\ bPainted)

\* Bin 1 at exactly 5 Hz, the lower edge of the band, gets the bottom row.
C20_Witness ==
  /\ bBin = 1
  /\ bRate = 10
  /\ bHeight = 3
  /\ bY = 2
  /\ bPainted

\* ------------------------------------------- properties of the collection
\* C27: the recording indicator and the recording behaviour agree: the
\* displayed flag isRecording equals the flag isRecordingRef that the tick
\* loop tests (line 317), also after handleReplay was invoked while a
\* recording was in progress.
C27_IndicatorAgrees == isRecording = isRecordingRef

\* C25: every Recording in the collection has durationMs equal to the
\* timestamp of the last frame of its frames, and its frames are in
\* non-decreasing timestamp order, captured or imported.
C25_DurationIsLastFrame ==
  \A k \in DOMAIN recordings :
    LET frames == recordings[k].frames
    IN /\ frames # << >> => recordings[k].durationMs = frames[Len(frames)].t
       /\ \A i, j \in DOMAIN frames : i < j => frames[i].t <= frames[j].t

\* C26: Recording ids are unique: no two Recordings of the collection have
\* the same id, after any sequence of captures and deletions.
C26_UniqueIds ==
  \A j, k \in DOMAIN recordings : recordings[j].id = recordings[k].id => j = k

\* ------------------------------------- properties of binToY and yToFreq
\* C28: the frequency-to-row mapping stays on the surface and preserves the
\* order: an in-band bin gets a row in 0 .. height - 1, and no in-band bin
\* of lower index gets a row above it (a smaller row number), in Linear and
\* in Logarithmic mode, for every height from 1 on.
C28_OrderPreserving ==
  (bY # Unset /\ bY # 0 - 1) =>
    /\ bY \in 0..(bHeight - 1)
    /\ \A i \in 0..(bBin - 1) :
         LET yi == BinToY(i, i + 1, bHeight, bLog, bRate, bFft)
         IN yi # 0 - 1 => bY <= yi

\* 10 Hz is drawn above 5 Hz on a logarithmic surface of height 3.
C28_Witness ==
  /\ bBin = 2
  /\ bRate = 10
  /\ bHeight = 3
  /\ bLog
  /\ bY = 1
  /\ BinToY(1, 2, bHeight, bLog, bRate, bFft) = 2

\* C21: round trip of the coordinate mapping: for an in-band bin and a
\* surface of height 2 or more, yToFreq of the row binToY gave the bin is
\* within the frequency span of one pixel row of the bin's frequency.  In
\* Linear mode every row spans (20000 - 5) / (height - 1) Hz; in Logarithmic
\* mode row y spans the frequencies from 5 * 4000^((height - 2 - y) / (height - 1))
\* to 5 * 4000^((height - 1 - y) / (height - 1)), and both the bin's
\* frequency and yToFreq's result lie in that span.
C21_RoundTrip ==
  (bY # Unset /\ bY # 0 - 1 /\ bHover.y = bY) =>
    LET f == bHover.freq
        binFreq == bBin * bRate
        h1 == bHeight - 1
        d == binFreq * f.den - f.num * bFft
    IN IF bLog
       THEN /\ f.num * h1 <= (h1 - bY) * f.den
            /\ f.num * h1 >= (h1 - bY - 1) * f.den
            /\ Pow(binFreq, h1) <= Pow(4000, h1 - bY) * Pow(5 * bFft, h1)
            /\ bY < h1 => Pow(binFreq, h1) >= Pow(4000, h1 - bY - 1) * Pow(5 * bFft, h1)
       ELSE (IF d < 0 THEN 0 - d ELSE d) * h1 <= 19995 * bFft * f.den

\* 4000 Hz on a logarithmic surface of height 3: row 0, and back to
\* 5 * 4000^(3/4) Hz.
C21_Witness ==
  /\ bBin = 2
  /\ bRate = 4000
  /\ bHeight = 3
  /\ bLog
  /\ bY = 0
  /\ bHover = [y |-> 0, freq |-> [num |-> 3, den |-> 4]]

\* -------------------------------------------- properties of the waterfall
\* The bins of the last tick's frame that binToY maps to row r.
BinsOnRow(r) ==
  {i \in 0..(Len(wFreq) - 1) :
     BinToY(i, Len(wFreq), SurfaceHeight, wLog, wRate, SurfaceFft) = r}

\* The rightmost column holds the last tick's frame and nothing else.
RightmostFromFrame ==
  \A r \in Rows :
    LET bins == BinsOnRow(r)
        top == CHOOSE i \in bins : \A j \in bins : j <= i
    IN wCanvas[SurfaceWidth - 1][r] =
         IF bins = {} THEN Black ELSE Colour(wFreq[top + 1])

\* C22: the waterfall tick: after a tick, column x of the image is the
\* pre-tick column x + 1 for every x < width - 1, and the rightmost column is
\* determined by the current frame alone: the pixel at row r has the colour
\* of the highest-index in-band bin that maps to r, and is background black
\* when no in-band bin maps to r.
C22_WaterfallTick ==
  [][(\E freq \in FreqArrays : PaintColumn(freq)) =>
       /\ \A x \in Columns : x < SurfaceWidth - 1 => wCanvas'[x] = wCanvas[x + 1]
       /\ RightmostFromFrame']_vars

\* ----------------------------------------- properties of the scale switch
\* C23: a scale-mode change does not alter the already scrolled history:
\* the step that switches between Linear and Logarithmic, during live
\* capture or during replay, leaves every column of the surface as it was
\* (neither remapped nor cleared).
C23_HistoryKept == [][useLogScale' # useLogScale => surface' = surface]_vars

\* A step in which a tick scrolls the surface and paints a column.
PaintingTick ==
  \/ \E i \in InstIds : Draw(i) \/ StartGranted(i)
  \/ /\ DrawReplay
     /\ LET frames == Deref(rp.frames, recordings, loose)
        IN frames[FindFrame(frames, now - rp.startTime)].ok

\* A tick callback is scheduled, or a start() that will schedule one is
\* awaiting the input device.
TickLoopAlive ==
  \/ LiveScheduled
  \/ rp.raf
  \/ \E i \in InstIds : live[i].st = "awaiting"

\* C24: after a scale-mode change the new mapping is used for new columns:
\* every column a tick paints is painted with the scale mode selected at
\* that time, and the step that changes the mode does not stop a running
\* tick loop.
C24_NewMappingUsed ==
  [][/\ PaintingTick => surface'[Len(surface')] = useLogScale
     /\ (useLogScale' # useLogScale /\ (LiveScheduled \/ rp.raf)) => TickLoopAlive']_vars

====
